---- MODULE Spec2Model ----
(***************************************************************************)
(* PulseConnect: the request / appointment / notification lifecycle as the *)
(* React components drive it against the Supabase store, and the blood     *)
(* inventory editor of the hospital dashboard.                             *)
(*                                                                         *)
(* Every `await supabase...` of a handler is one step of the model: other  *)
(* clients interleave between two awaits of the same handler.              *)
(***************************************************************************)
EXTENDS Integers, Sequences, FiniteSets, Bags, TLC

(***************************************************************************)
(* Bounds of the model.                                                    *)
(***************************************************************************)
NumDonors == 2          \* donors acting through their own DonorRequestCard
NumRequests == 1        \* request rows present in the store
MaxOps == 2             \* store-touching operations started in one behaviour
MaxTicks == 1           \* hours the clock advances in one behaviour
TzMax == 1              \* client timezones range over -TzMax..TzMax hours
MaxUnits == 3           \* largest unit count the inventory reaches
MaxLen == 2             \* characters typed into the inventory number field
NumTypes == 2           \* blood types listed in the inventory
NumViewers == 2         \* hospital sessions with a DonorProfiles list open
NumNotifs == 2          \* rows the notifications table holds at most
MaxInFlight == 2        \* NotificationSystem handlers awaiting the store

(***************************************************************************)
(* Program constants.                                                      *)
(***************************************************************************)
HoursPerDay == 24       \* 24 * 60 * 60 * 1000 ms, counted in hours
WindowDays == 30        \* maxDate.setDate(maxDate.getDate() + 30)
NULL == 0               \* SQL NULL / JS undefined for ids and dates
NoStatus == "null"      \* a requests row whose status column holds no value

Donors == 1..NumDonors
Requests == 1..NumRequests
HospitalUser == NumDonors + 1   \* the id of the one hospital account
Cards == Donors \X Requests     \* one DonorRequestCard per donor and request
Types == 1..NumTypes            \* the blood types of bloodInventory

VARIABLES
    requests,       \* store: id -> [status, donor_id, hospital_id]
    appointments,   \* store: the bag of appointment rows
    notifications,  \* store: the bag of notification rows
    started,        \* store-touching operations started so far
    pc,             \* card -> where its handler is: an await, or its finally
    loading,        \* card -> useState(false) loading flag
    pre,            \* card -> stored status the handler's update met
    preDonor,       \* card -> stored donor_id the handler's update met
    changes,        \* card -> tables the handler has written
    toast,          \* card -> the toast the handler ends with
    hview,          \* RequestsList: id -> status in the local list, or "none"
    lpc,            \* RequestsList: "return" while a handler is at its end
    lop,            \* RequestsList: what that handler did
    hpc,            \* AppointmentForm.handleSubmit: an await, or its finally
    hop,            \* AppointmentForm.handleSubmit: props and form data in use
    hpre,           \* stored status of the request when the insert returned
    hchanges,       \* tables handleSubmit has written
    htoast,         \* the toast handleSubmit ends with
    now,            \* the instant, in hours since the epoch (UTC)
    ticks,          \* hours the clock has advanced
    tz,             \* the client's offset from UTC, in hours
    bloodInventory, \* HospitalDashboard: blood type -> units
    editingType,    \* HospitalDashboard: the type being edited, or NULL
    tempValue,      \* HospitalDashboard: the edit field's parsed value
    dashToast,      \* HospitalDashboard: the toast an inventory handler shows
    donorType,      \* Dashboard: the donor type last given to compatible
    patientType,    \* Dashboard: the patient type last given to compatible
    answer,         \* Dashboard: what compatible returned for them
    reqGroup,       \* Dashboard: blood_group of the request being rendered
    matched,        \* Dashboard: the donors listed under that request
    profiles,       \* store: donor -> [is_available]
    donors,         \* DonorProfiles: viewer -> the donor ids listed
    dloading,       \* DonorProfiles: viewer -> useState(true) loading flag
    selectedDonor,  \* DonorProfiles: viewer -> the donor chosen, or NULL
    dtoast,         \* DonorProfiles: viewer -> the last toast shown
    nstore,         \* store: notification id -> row, or NoRow
    donorIdProp,    \* NotificationSystem: the donorId prop, or NULL
    nlist,          \* NotificationSystem: the notifications state
    nloading,       \* NotificationSystem: useState(true) loading flag
    inflight,       \* NotificationSystem: the handlers awaiting the store
    nop,            \* NotificationSystem: the handler that returned last
    rstore,         \* store: the request rows the request forms inserted
    rpc,            \* request forms: where the running handleSubmit stands
    rop,            \* request forms: that handleSubmit's form, data and toast
    rlist           \* RequestsList: the user and the rows of its last fetch

storeVars == <<requests, appointments, notifications, started>>
cardVars == <<pc, loading, pre, preDonor, changes, toast>>
listVars == <<hview, lpc, lop>>
formVars == <<hpc, hop, hpre, hchanges, htoast>>
hospitalVars == <<listVars, formVars>>
lifecycleVars == <<storeVars, cardVars, hospitalVars>>
clockVars == <<now, ticks, tz>>
inventoryVars == <<bloodInventory, editingType, tempValue, dashToast>>
matchVars == <<donorType, patientType, answer, reqGroup, matched>>
profileVars == <<profiles, donors, dloading, selectedDonor, dtoast>>
notifVars == <<nstore, donorIdProp, nlist, nloading, inflight, nop>>
requestVars == <<rstore, rpc, rop, rlist>>
screenVars == <<matchVars, profileVars, notifVars, requestVars>>
vars == <<lifecycleVars, clockVars, inventoryVars, screenVars>>

(***************************************************************************)
(* The store.                                                              *)
(***************************************************************************)
\* RLS policy requests_update_own: the rows an UPDATE by uid may touch.
requests_update_own(uid, row) ==
    uid = row.hospital_id \/ uid = row.donor_id

\* What one `.update(...).eq('id', id)` on requests can come back with:
\* the row is written; the store returns an error; the call throws; or,
\* where the RLS policy is in force and hides the row, zero rows match
\* and the store reports no error.
UpdateOutcomes(uid, id) ==
    {"applied", "error", "thrown"}
        \cup (IF requests_update_own(uid, requests[id]) THEN {} ELSE {"filtered"})

\* What one `.insert(...)` can come back with.
InsertOutcomes == {"applied", "error", "thrown"}

\* An update that takes back a write it finds already made.
UpdateRequestToggling(id, fields) ==
    [requests EXCEPT ![id] =
        [f \in DOMAIN requests[id] |->
            IF \A g \in DOMAIN fields : requests[id][g] = fields[g]
            THEN (IF f = "status" THEN "pending" ELSE requests[id][f])
            ELSE IF f \in DOMAIN fields THEN fields[f] ELSE requests[id][f]]]

\* requests after `.update(fields).eq('id', id)`: only the named row changes,
\* and only the columns given.
UpdateRequest(id, fields) ==
    [requests EXCEPT ![id] =
        [f \in DOMAIN requests[id] |->
            IF f \in DOMAIN fields THEN fields[f] ELSE requests[id][f]]]

(***************************************************************************)
(* Time (Date, toISOString, the date input).                               *)
(***************************************************************************)
\* date.toISOString().split('T')[0]: the calendar day of an instant in UTC.
IsoDay(t) == t \div HoursPerDay

\* The calendar day of an instant on the client's clock.
LocalDay(t) == (t + tz) \div HoursPerDay

\* new Date(`${date}T${time}`): a day and an hour read as client-local time.
ParseLocal(day, hour) == day * HoursPerDay + hour - tz

getMinDate == IsoDay(now)

\* setDate(getDate() + 30) moves the instant by 30 days, then toISOString.
getMaxDate == IsoDay(now + WindowDays * HoursPerDay)

(***************************************************************************)
(* DonorRequestCard                                                        *)
(***************************************************************************)
\* The card renders its buttons when request.status === 'pending'.  The
\* request prop comes from Dashboard.donorRequests, which is loaded from
\* the sample data and reloaded from the sample data by handleRequestUpdate:
\* it never follows the store, so a card that showed the buttons shows them
\* whatever the stored status has become.  Both buttons are disabled while
\* loading.
CardShowsButtons(c) == ~loading[c]

\* The handler of card c shows its last toast and reaches its finally block.
\* The donor_id of the row when the update of card c's handler returns.
DonorMet(c, met) ==
    [preDonor EXCEPT ![c] = IF pc[c] \in {"acc_update", "ign_update"}
                                  /\ met # "none"
                            THEN requests[c[2]].donor_id ELSE @]

CardToasts(c, next, met, wrote, message) ==
    /\ pc' = [pc EXCEPT ![c] = next]
    /\ pre' = [pre EXCEPT ![c] = met]
    /\ preDonor' = DonorMet(c, met)
    /\ changes' = [changes EXCEPT ![c] = wrote]
    /\ toast' = [toast EXCEPT ![c] = message]
    /\ UNCHANGED loading

\* The handler of card c moves on to its next await.
CardAwaits(c, next, met, wrote) ==
    /\ pc' = [pc EXCEPT ![c] = next]
    /\ pre' = [pre EXCEPT ![c] = met]
    /\ preDonor' = DonorMet(c, met)
    /\ changes' = [changes EXCEPT ![c] = wrote]
    /\ UNCHANGED <<loading, toast>>

\* handleAccept / handleIgnore up to the first await: setLoading(true), the
\* session's donor id, and the early return without one.
CardStart(c, next, return) ==
    /\ pc[c] = "idle"
    /\ CardShowsButtons(c)
    /\ loading' = [loading EXCEPT ![c] = TRUE]
    /\ \E donorId \in {NULL, c[1]} :
         IF donorId = NULL
         THEN /\ pc' = [pc EXCEPT ![c] = return]
              /\ toast' = [toast EXCEPT ![c] = "auth_error"]
              /\ UNCHANGED <<pre, preDonor, changes, started>>
         ELSE /\ started < MaxOps
              /\ started' = started + 1
              /\ pc' = [pc EXCEPT ![c] = next]
              /\ UNCHANGED <<pre, preDonor, changes, toast>>
    /\ UNCHANGED <<requests, appointments, notifications>>
    /\ UNCHANGED hospitalVars
    /\ UNCHANGED <<clockVars, inventoryVars, screenVars>>

\* A handler that ends without its finally block: loading stays as it is.
CardReturnKeepsLoading(c) ==
    /\ pc[c] \in {"acc_return", "ign_return"}
    /\ pc' = [pc EXCEPT ![c] = "idle"]
    /\ pre' = [pre EXCEPT ![c] = "none"]
    /\ preDonor' = [preDonor EXCEPT ![c] = NULL]
    /\ changes' = [changes EXCEPT ![c] = {}]
    /\ toast' = [toast EXCEPT ![c] = "none"]
    /\ UNCHANGED <<loading, requests, appointments, notifications, started>>
    /\ UNCHANGED hospitalVars
    /\ UNCHANGED <<clockVars, inventoryVars, screenVars>>

\* finally { setLoading(false) }: the handler of card c is over.
CardReturn(c) ==
    /\ pc[c] \in {"acc_return", "ign_return"}
    /\ pc' = [pc EXCEPT ![c] = "idle"]
    /\ loading' = [loading EXCEPT ![c] = FALSE]
    /\ pre' = [pre EXCEPT ![c] = "none"]
    /\ preDonor' = [preDonor EXCEPT ![c] = NULL]
    /\ changes' = [changes EXCEPT ![c] = {}]
    /\ toast' = [toast EXCEPT ![c] = "none"]
    /\ UNCHANGED <<requests, appointments, notifications, started>>
    /\ UNCHANGED hospitalVars
    /\ UNCHANGED <<clockVars, inventoryVars, screenVars>>

AcceptStart(c) == CardStart(c, "acc_update", "acc_return")

\* The fields handleAccept writes to the request row.
AcceptFields(donorId) == [donor_id |-> donorId, status |-> "accepted"]

\* handleAccept: the update of the request returns.
AcceptUpdate(c) ==
    /\ pc[c] = "acc_update"
    /\ LET met == requests[c[2]].status
       IN  \E out \in UpdateOutcomes(c[1], c[2]) :
             CASE out = "applied" ->
                    /\ requests' = UpdateRequest(c[2], AcceptFields(c[1]))
                    /\ CardAwaits(c, "acc_appointment", met, {"request"})
               [] out = "filtered" ->
                    /\ UNCHANGED requests
                    /\ CardAwaits(c, "acc_appointment", met, {})
               [] out = "error" ->
                    /\ UNCHANGED requests
                    /\ CardToasts(c, "acc_return", met, {}, "failed")
               [] out = "thrown" ->
                    /\ UNCHANGED requests
                    /\ CardToasts(c, "acc_return", met, {}, "error")
    /\ UNCHANGED <<appointments, notifications, started>>
    /\ UNCHANGED hospitalVars
    /\ UNCHANGED <<clockVars, inventoryVars, screenVars>>

\* The appointment row handleAccept inserts: tomorrow, status 'scheduled'.
AcceptAppointmentRow(c) ==
    [request_id |-> c[2],
     hospital_id |-> requests[c[2]].hospital_id,
     donor_id |-> c[1],
     appointment_date |-> now + HoursPerDay,
     status |-> "scheduled",
     created_at |-> now]

\* handleAccept: the insert of the appointment returns; a returned error is
\* logged and the handler goes on.
AcceptAppointment(c) ==
    /\ pc[c] = "acc_appointment"
    /\ \E out \in InsertOutcomes :
         CASE out = "applied" ->
                /\ appointments' = appointments (+) SetToBag({AcceptAppointmentRow(c)})
                /\ CardAwaits(c, "acc_notification", pre[c],
                              changes[c] \cup {"appointment"})
           [] out = "error" ->
                /\ UNCHANGED appointments
                /\ CardAwaits(c, "acc_notification", pre[c], changes[c])
           [] out = "thrown" ->
                /\ UNCHANGED appointments
                /\ CardToasts(c, "acc_return", pre[c], changes[c], "error")
    /\ UNCHANGED <<requests, notifications, started>>
    /\ UNCHANGED hospitalVars
    /\ UNCHANGED <<clockVars, inventoryVars, screenVars>>

\* The notification row handleAccept inserts for the hospital.
AcceptNotificationRow(c) ==
    [user_id |-> requests[c[2]].hospital_id,
     user_type |-> "hospital",
     type |-> "request",
     request_id |-> c[2],
     donor_id |-> c[1],
     is_read |-> FALSE]

\* handleAccept: the insert of the notification returns; its result is not
\* looked at, and the success toast follows unless the call throws.
AcceptNotification(c) ==
    /\ pc[c] = "acc_notification"
    /\ \E out \in InsertOutcomes :
         CASE out = "applied" ->
                /\ notifications' =
                       notifications (+) SetToBag({AcceptNotificationRow(c)})
                /\ CardToasts(c, "acc_return", pre[c],
                               changes[c] \cup {"notification"}, "success")
           [] out = "error" ->
                /\ UNCHANGED notifications
                /\ CardToasts(c, "acc_return", pre[c], changes[c], "success")
           [] out = "thrown" ->
                /\ UNCHANGED notifications
                /\ CardToasts(c, "acc_return", pre[c], changes[c], "error")
    /\ UNCHANGED <<requests, appointments, started>>
    /\ UNCHANGED hospitalVars
    /\ UNCHANGED <<clockVars, inventoryVars, screenVars>>

IgnoreStart(c) == CardStart(c, "ign_update", "ign_return")

\* The fields handleIgnore writes to the request row.
IgnoreFields(donorId) == [donor_id |-> donorId, status |-> "ignored"]

\* handleIgnore: the update of the request returns.
IgnoreUpdate(c) ==
    /\ pc[c] = "ign_update"
    /\ LET met == requests[c[2]].status
       IN  \E out \in UpdateOutcomes(c[1], c[2]) :
             CASE out = "applied" ->
                    /\ requests' = UpdateRequest(c[2], IgnoreFields(c[1]))
                    /\ CardToasts(c, "ign_return", met, {"request"}, "success")
               [] out = "filtered" ->
                    /\ UNCHANGED requests
                    /\ CardToasts(c, "ign_return", met, {}, "success")
               [] out = "error" ->
                    /\ UNCHANGED requests
                    /\ CardToasts(c, "ign_return", met, {}, "failed")
               [] out = "thrown" ->
                    /\ UNCHANGED requests
                    /\ CardToasts(c, "ign_return", met, {}, "error")
    /\ UNCHANGED <<appointments, notifications, started>>
    /\ UNCHANGED hospitalVars
    /\ UNCHANGED <<clockVars, inventoryVars, screenVars>>

\* The donor leaves the page while a handler is suspended at an await: the
\* rest of the handler never runs, and a later visit mounts a fresh card.
CardAbandon(c) ==
    /\ pc[c] \in {"acc_update", "acc_appointment", "acc_notification",
                  "ign_update"}
    /\ CardToasts(c, IF pc[c] = "ign_update" THEN "ign_return" ELSE "acc_return",
                  pre[c], changes[c], "abandoned")
    /\ UNCHANGED <<requests, appointments, notifications, started>>
    /\ UNCHANGED hospitalVars
    /\ UNCHANGED <<clockVars, inventoryVars, screenVars>>

(***************************************************************************)
(* RequestsList                                                            *)
(***************************************************************************)
\* fetchRequests maps every fetched row to {...request, status:
\* request.status || 'Pending'}: a row without a status shows as 'Pending'.
StatusShown(status) == IF status = NoStatus THEN "Pending" ELSE status

\* No handler of the list is at its end.
NoUpdate == [id |-> NULL, pre |-> "none", changes |-> {}, toast |-> "none"]

\* fetchRequests, run by useEffect when the list mounts: the hospital's
\* rows become the local list; on an error the list stays empty.  Nothing
\* runs it again: HospitalDashboard.handleRequestSubmitted is empty.
FetchRequests ==
    /\ \A id \in Requests : hview[id] = "none"
    /\ lpc = "idle"
    /\ \E out \in {"data", "error"} :
         IF out = "data"
         THEN /\ hview' = [id \in Requests |-> StatusShown(requests[id].status)]
              /\ UNCHANGED <<lpc, lop>>
         ELSE /\ lpc' = "return"
              /\ lop' = [NoUpdate EXCEPT !.toast = "fetch_failed"]
              /\ UNCHANGED hview
    /\ UNCHANGED <<requests, appointments, notifications, started>>
    /\ UNCHANGED <<cardVars, formVars>>
    /\ UNCHANGED <<clockVars, inventoryVars, screenVars>>

\* updateRequestStatus(requestId, status), reached from the Accept and
\* Ignore buttons a row shows while its local status is 'Pending'.
UpdateRequestStatus(id, status) ==
    /\ hview[id] = "Pending"
    /\ lpc = "idle"
    /\ started < MaxOps
    /\ started' = started + 1
    /\ lpc' = "return"
    /\ LET met == requests[id].status
       IN  \E out \in UpdateOutcomes(HospitalUser, id) :
             CASE out = "applied" ->
                    /\ requests' = UpdateRequest(id, [status |-> status])
                    /\ hview' = [hview EXCEPT ![id] = status]
                    /\ lop' = [id |-> id, pre |-> met, changes |-> {"request"},
                               toast |-> "success"]
               [] out = "filtered" ->
                    /\ UNCHANGED requests
                    /\ hview' = [hview EXCEPT ![id] = status]
                    /\ lop' = [id |-> id, pre |-> met, changes |-> {},
                               toast |-> "success"]
               [] out \in {"error", "thrown"} ->
                    /\ UNCHANGED <<requests, hview>>
                    /\ lop' = [id |-> id, pre |-> met, changes |-> {},
                               toast |-> "failed"]
    /\ UNCHANGED <<appointments, notifications>>
    /\ UNCHANGED <<cardVars, formVars>>
    /\ UNCHANGED <<clockVars, inventoryVars, screenVars>>

\* The list's handler is over.
ListReturn ==
    /\ lpc = "return"
    /\ lpc' = "idle"
    /\ lop' = NoUpdate
    /\ UNCHANGED <<requests, appointments, notifications, started, hview>>
    /\ UNCHANGED <<cardVars, formVars>>
    /\ UNCHANGED <<clockVars, inventoryVars, screenVars>>

(***************************************************************************)
(* AppointmentForm                                                         *)
(***************************************************************************)
\* The days and hours tried in the date and time inputs: the ends of the
\* window the date input allows, one day outside each end, and the first
\* and last hour of a day.
DateChoices == {getMinDate - 1, getMinDate, getMaxDate, getMaxDate + 1}
TimeChoices == {0, HoursPerDay - 1}

\* The browser fires the submit event only when the form's constraints
\* hold: the three required inputs are filled and the date lies within
\* min={getMinDate()} and max={getMaxDate()}.
FormSubmits(date, time, contact) ==
    /\ date # NULL /\ time # NULL /\ contact
    /\ getMinDate <= date /\ date <= getMaxDate

\* No handleSubmit is running.
NoSubmit == [donor |-> NULL, requestId |-> NULL, user |-> NULL, at |-> NULL]

\* handleSubmit shows its last toast and reaches its finally block.
SubmitToasts(met, wrote, message) ==
    /\ hpc' = "sch_return"
    /\ hpre' = met
    /\ hchanges' = wrote
    /\ htoast' = message
    /\ UNCHANGED hop

\* handleSubmit up to its first await.  donor and requestId are the props
\* DonorProfiles passes; date, time and contact are formData.
HandleSubmit(donor, requestId, date, time, contact) ==
    /\ hpc = "idle"
    /\ FormSubmits(date, time, contact)
    /\ \E user \in {NULL, HospitalUser} :
         IF user = NULL
         THEN /\ hpc' = "sch_return"
              /\ htoast' = "auth_required"
              /\ UNCHANGED <<hop, hpre, hchanges, started>>
         ELSE IF date = NULL \/ time = NULL \/ ~contact
         THEN /\ hpc' = "sch_return"
              /\ htoast' = "missing_information"
              /\ UNCHANGED <<hop, hpre, hchanges, started>>
         ELSE /\ started < MaxOps
              /\ started' = started + 1
              /\ hpc' = "sch_insert"
              /\ hop' = [donor |-> donor, requestId |-> requestId,
                         user |-> user, at |-> ParseLocal(date, time)]
              /\ UNCHANGED <<hpre, hchanges, htoast>>
    /\ UNCHANGED <<requests, appointments, notifications>>
    /\ UNCHANGED <<cardVars, listVars>>
    /\ UNCHANGED <<clockVars, inventoryVars, screenVars>>

\* The appointment row handleSubmit inserts.
SubmitAppointmentRow ==
    [request_id |-> hop.requestId,
     hospital_id |-> hop.user,
     donor_id |-> hop.donor,
     appointment_date |-> hop.at,
     status |-> "pending",
     created_at |-> now]

\* handleSubmit: the insert of the appointment returns.
SubmitInsert ==
    /\ hpc = "sch_insert"
    /\ LET met == IF hop.requestId = NULL THEN "none"
                  ELSE requests[hop.requestId].status
       IN  \E out \in InsertOutcomes :
             IF out = "applied"
             THEN /\ appointments' = appointments (+) SetToBag({SubmitAppointmentRow})
                  /\ hchanges' = hchanges \cup {"appointment"}
                  /\ hpre' = met
                  /\ hpc' = IF hop.requestId # NULL THEN "sch_update"
                            ELSE "sch_notification"
                  /\ UNCHANGED <<hop, htoast>>
             ELSE /\ UNCHANGED appointments
                  /\ SubmitToasts(met, hchanges, "failed")
    /\ UNCHANGED <<requests, notifications, started>>
    /\ UNCHANGED <<cardVars, listVars>>
    /\ UNCHANGED <<clockVars, inventoryVars, screenVars>>

\* handleSubmit: the update of the request to 'Scheduled' returns.
SubmitUpdate ==
    /\ hpc = "sch_update"
    /\ \E out \in UpdateOutcomes(hop.user, hop.requestId) :
         CASE out = "applied" ->
                /\ requests' = UpdateRequest(hop.requestId,
                                             [status |-> "Scheduled"])
                /\ hchanges' = hchanges \cup {"request"}
                /\ hpc' = "sch_notification"
                /\ UNCHANGED <<hop, hpre, htoast>>
           [] out = "filtered" ->
                /\ hpc' = "sch_notification"
                /\ UNCHANGED <<requests, hchanges, hop, hpre, htoast>>
           [] out \in {"error", "thrown"} ->
                /\ UNCHANGED requests
                /\ SubmitToasts(hpre, hchanges, "failed")
    /\ UNCHANGED <<appointments, notifications, started>>
    /\ UNCHANGED <<cardVars, listVars>>
    /\ UNCHANGED <<clockVars, inventoryVars, screenVars>>

\* The notification row sendNotificationToDonor inserts.
SubmitNotificationRow ==
    [user_id |-> hop.donor,
     user_type |-> NoStatus,
     type |-> "appointment_confirmation",
     request_id |-> NULL,
     donor_id |-> NULL,
     is_read |-> FALSE]

\* handleSubmit: sendNotificationToDonor returns; it swallows a returned
\* error and a thrown one, and the success toast follows.
sendNotificationToDonor ==
    /\ hpc = "sch_notification"
    /\ \E out \in InsertOutcomes :
         IF out = "applied"
         THEN /\ notifications' =
                     notifications (+) SetToBag({SubmitNotificationRow})
              /\ SubmitToasts(hpre, hchanges \cup {"notification"}, "success")
         ELSE /\ UNCHANGED notifications
              /\ SubmitToasts(hpre, hchanges, "success")
    /\ UNCHANGED <<requests, appointments, started>>
    /\ UNCHANGED <<cardVars, listVars>>
    /\ UNCHANGED <<clockVars, inventoryVars, screenVars>>

\* The hospital user leaves the page while handleSubmit is suspended at an
\* await: the rest of the handler never runs.
FormAbandon ==
    /\ hpc \in {"sch_insert", "sch_update", "sch_notification"}
    /\ SubmitToasts(hpre, hchanges, "abandoned")
    /\ UNCHANGED <<requests, appointments, notifications, started>>
    /\ UNCHANGED <<cardVars, listVars>>
    /\ UNCHANGED <<clockVars, inventoryVars, screenVars>>

\* finally { setLoading(false) }: handleSubmit is over.
SubmitReturn ==
    /\ hpc = "sch_return"
    /\ hpc' = "idle"
    /\ hop' = NoSubmit
    /\ hpre' = "none"
    /\ hchanges' = {}
    /\ htoast' = "none"
    /\ UNCHANGED <<requests, appointments, notifications, started>>
    /\ UNCHANGED <<cardVars, listVars>>
    /\ UNCHANGED <<clockVars, inventoryVars, screenVars>>

(***************************************************************************)
(* The clock                                                               *)
(***************************************************************************)
Tick ==
    /\ ticks < MaxTicks
    /\ now' = now + 1
    /\ ticks' = ticks + 1
    /\ UNCHANGED <<tz, lifecycleVars, inventoryVars, screenVars>>

(***************************************************************************)
(* HospitalDashboard: the blood inventory                                  *)
(***************************************************************************)
\* The characters typed into the edit field, and the texts they make.
Chars == {"-", ".", "0", "1", "2"}
Texts == UNION {[1..n -> Chars] : n \in 0..MaxLen}

IsDigit(ch) == ch \in {"0", "1", "2"}
DigitValue(ch) == CASE ch = "0" -> 0 [] ch = "1" -> 1 [] ch = "2" -> 2
AllDigits(s) == \A i \in 1..Len(s) : IsDigit(s[i])

\* <Input type="number">: e.target.value is the text when it is a valid
\* floating-point number (digits, or digits "." digits, or "." digits, with
\* an optional leading "-"), and the empty string otherwise.
ValidUnsigned(s) ==
    \/ Len(s) > 0 /\ AllDigits(s)
    \/ \E k \in 1..Len(s) :
         /\ s[k] = "."
         /\ k < Len(s)
         /\ AllDigits(SubSeq(s, 1, k - 1))
         /\ AllDigits(SubSeq(s, k + 1, Len(s)))
ValidFloatingPoint(s) ==
    \/ ValidUnsigned(s)
    \/ Len(s) > 0 /\ s[1] = "-" /\ ValidUnsigned(Tail(s))
InputValue(text) == IF ValidFloatingPoint(text) THEN text ELSE <<>>

\* The number the leading decimal digits of s spell, continuing from acc.
RECURSIVE LeadingDigits(_, _)
LeadingDigits(s, acc) ==
    IF s = <<>> \/ ~IsDigit(Head(s)) THEN acc
    ELSE LeadingDigits(Tail(s), 10 * acc + DigitValue(Head(s)))

\* parseInt(s): an optional sign, then the leading digits; NaN without one.
parseInt(s) ==
    LET neg == s # <<>> /\ Head(s) = "-"
        body == IF neg THEN Tail(s) ELSE s
    IN  IF body = <<>> \/ ~IsDigit(Head(body))
        THEN [nan |-> TRUE, value |-> 0]
        ELSE [nan |-> FALSE,
              value |-> IF neg THEN 0 - LeadingDigits(body, 0)
                        ELSE LeadingDigits(body, 0)]

\* parseInt(e.target.value) || 0
ParsedOrZero(text) ==
    LET p == parseInt(InputValue(text))
    IN  IF p.nan \/ p.value = 0 THEN 0 ELSE p.value

\* Math.max(0, x)
MathMax0(x) == IF x > 0 THEN x ELSE 0

\* handleEditStart(type, currentUnits), from the Edit button of a row that
\* is not being edited.
handleEditStart(type) ==
    /\ editingType # type
    /\ editingType' = type
    /\ tempValue' = bloodInventory[type]
    /\ UNCHANGED <<bloodInventory, dashToast, lifecycleVars, clockVars,
                 screenVars>>

\* onChange of the edit field: setTempValue(parseInt(e.target.value) || 0)
tempValueChange(text) ==
    /\ editingType # NULL
    /\ tempValue' = ParsedOrZero(text)
    /\ UNCHANGED <<bloodInventory, editingType, dashToast, lifecycleVars, clockVars,
                 screenVars>>

\* handleEditSave(type), from the Save button of the row being edited.
handleEditSave(type) ==
    /\ editingType = type
    /\ bloodInventory' = [t \in Types |->
                            IF t = type THEN tempValue ELSE bloodInventory[t]]
    /\ editingType' = NULL
    /\ dashToast' = [title |-> "Blood Inventory Updated", type |-> type]
    /\ UNCHANGED <<tempValue, lifecycleVars, clockVars,
                 screenVars>>

\* handleEditCancel, from the Cancel button of the row being edited.
handleEditCancel ==
    /\ editingType # NULL
    /\ editingType' = NULL
    /\ tempValue' = 0
    /\ UNCHANGED <<bloodInventory, dashToast, lifecycleVars, clockVars,
                 screenVars>>

\* The toast of handleQuickUpdate: `${type} blood units ${change > 0 ?
\* 'increased' : 'decreased'} by ${Math.abs(change)}`; change is 1 or -1.
QuickUpdateTitle(change) ==
    IF change > 0 THEN "increased by 1" ELSE "decreased by 1"

\* No toast has been shown.
NoToast == [title |-> "none", type |-> NULL]

\* handleQuickUpdate(type, change), from the - and + buttons of a row: the
\* count is clamped at 0 and the toast reports the change asked for.
handleQuickUpdate(type, change) ==
    /\ bloodInventory[type] + change <= MaxUnits \/ change < 0
    /\ bloodInventory' = [t \in Types |->
                            IF t = type
                            THEN MathMax0(bloodInventory[t] + change)
                            ELSE bloodInventory[t]]
    /\ dashToast' = [title |-> QuickUpdateTitle(change), type |-> type]
    /\ UNCHANGED <<editingType, tempValue, lifecycleVars, clockVars,
                 screenVars>>

(***************************************************************************)
(* Dashboard: donor-patient matches                                        *)
(***************************************************************************)
BloodGroups == {"O-", "O+", "A-", "A+", "B-", "B+", "AB-", "AB+"}

\* What reaches compatible as a type: a blood group, or any other string.
TypeStrings == BloodGroups \cup {"unknown"}

\* The table as a recipient's list of donors, the opposite reading.
compatByRecipient ==
    [g \in BloodGroups |->
       CASE g = "O-" -> <<"O-">>
         [] g = "O+" -> <<"O-", "O+">>
         [] g = "A-" -> <<"O-", "A-">>
         [] g = "A+" -> <<"O-", "O+", "A-", "A+">>
         [] g = "B-" -> <<"O-", "B-">>
         [] g = "B+" -> <<"O-", "O+", "B-", "B+">>
         [] g = "AB-" -> <<"O-", "A-", "B-", "AB-">>
         [] g = "AB+" -> <<"O-", "O+", "A-", "A+", "B-", "B+", "AB-", "AB+">>]

\* const compat: Record<string, string[]>, donor type -> patient types.
compat ==
    [g \in BloodGroups |->
       CASE g = "O-" -> <<"O-", "O+", "A-", "A+", "B-", "B+", "AB-", "AB+">>
         [] g = "O+" -> <<"O+", "A+", "B+", "AB+">>
         [] g = "A-" -> <<"A-", "A+", "AB-", "AB+">>
         [] g = "A+" -> <<"A+", "AB+">>
         [] g = "B-" -> <<"B-", "B+", "AB-", "AB+">>
         [] g = "B+" -> <<"B+", "AB+">>
         [] g = "AB-" -> <<"AB-", "AB+">>
         [] g = "AB+" -> <<"AB+">>]

\* list.includes(x)
includes(list, x) == \E i \in 1..Len(list) : list[i] = x

\* (compat[donorType] || []).includes(patientType)
compatible(d, p) ==
    includes(IF d \in DOMAIN compat THEN compat[d] ELSE <<>>, p)

\* const demoDonors; distanceKm in tenths of a kilometre.
demoDonors ==
    << [id |-> "d1", blood |-> "O+", distanceKm |-> 32],
       [id |-> "d2", blood |-> "A+", distanceKm |-> 51],
       [id |-> "d3", blood |-> "B+", distanceKm |-> 24],
       [id |-> "d4", blood |-> "AB+", distanceKm |-> 78] >>

\* array.filter(d => compatible(d.blood, group))
filter(list, group) ==
    SelectSeq(list, LAMBDA d : compatible(d.blood, group))

\* One element put into a list sorted by distanceKm descending, the
\* comparator b.distanceKm - a.distanceKm.
RECURSIVE insertByDistanceDescending(_, _)
insertByDistanceDescending(d, list) ==
    IF list = <<>> THEN <<d>>
    ELSE IF d.distanceKm > Head(list).distanceKm THEN <<d>> \o list
    ELSE <<Head(list)>> \o insertByDistanceDescending(d, Tail(list))

\* One element put into a list sorted by distanceKm, after its equals.
RECURSIVE insertByDistance(_, _)
insertByDistance(d, list) ==
    IF list = <<>> THEN <<d>>
    ELSE IF d.distanceKm < Head(list).distanceKm THEN <<d>> \o list
    ELSE <<Head(list)>> \o insertByDistance(d, Tail(list))

\* array.sort((a, b) => a.distanceKm - b.distanceKm): stable, ascending.
RECURSIVE sortByDistance(_)
sortByDistance(list) ==
    IF list = <<>> THEN <<>>
    ELSE insertByDistance(list[Len(list)],
                          sortByDistance(SubSeq(list, 1, Len(list) - 1)))

\* array.slice(0, n)
slice(list, n) == SubSeq(list, 1, IF Len(list) < n THEN Len(list) ELSE n)

\* const matched = demoDonors.filter(...).sort(...).slice(0, 2)
MatchedFor(group) ==
    slice(sortByDistance(filter(demoDonors, group)), 2)

\* One call of compatible(donorType, patientType).
Compatible(d, p) ==
    /\ donorType' = d
    /\ patientType' = p
    /\ answer' = compatible(d, p)
    /\ UNCHANGED <<reqGroup, matched>>
    /\ UNCHANGED <<lifecycleVars, clockVars, inventoryVars, requestVars,
                   profileVars, notifVars>>

\* The matches card renders one request: its group and the donors matched.
RenderMatches(group) ==
    /\ reqGroup' = group
    /\ matched' = MatchedFor(group)
    /\ UNCHANGED <<donorType, patientType, answer>>
    /\ UNCHANGED <<lifecycleVars, clockVars, inventoryVars, requestVars,
                   profileVars, notifVars>>

(***************************************************************************)
(* DonorProfiles                                                           *)
(***************************************************************************)
Viewers == 1..NumViewers

\* The donor ids 1..n whose row satisfies avail, in the order of the store.
RECURSIVE AvailableUpTo(_, _)
AvailableUpTo(n, avail) ==
    IF n = 0 THEN <<>>
    ELSE AvailableUpTo(n - 1, avail)
             \o (IF avail[n].is_available THEN <<n>> ELSE <<>>)

\* fetchDonors, run by useEffect when the list mounts: the profiles with
\* is_available = true become the local list; on an error the list stays
\* empty and a toast is shown.  Nothing runs it again.
fetchDonors(v) ==
    /\ dloading[v]
    /\ dloading' = [dloading EXCEPT ![v] = FALSE]
    /\ \E out \in {"data", "error"} :
         IF out = "data"
         THEN /\ donors' = [donors EXCEPT
                               ![v] = AvailableUpTo(NumDonors, profiles)]
              /\ UNCHANGED dtoast
         ELSE /\ dtoast' = [dtoast EXCEPT ![v] = "fetch_failed"]
              /\ UNCHANGED donors
    /\ UNCHANGED <<profiles, selectedDonor>>
    /\ UNCHANGED <<lifecycleVars, clockVars, inventoryVars, requestVars,
                   matchVars, notifVars>>

\* handleAcceptDonor(donor), from the Schedule button of a listed donor:
\* the appointment form opens for that donor.
handleAcceptDonor(v, d) ==
    /\ includes(donors[v], d)
    /\ selectedDonor[v] = NULL
    /\ selectedDonor' = [selectedDonor EXCEPT ![v] = d]
    /\ UNCHANGED <<profiles, donors, dloading, dtoast>>
    /\ UNCHANGED <<lifecycleVars, clockVars, inventoryVars, requestVars,
                   matchVars, notifVars>>

\* onClose / onSuccess of the appointment form.
CloseAppointmentForm(v) ==
    /\ selectedDonor[v] # NULL
    /\ selectedDonor' = [selectedDonor EXCEPT ![v] = NULL]
    /\ UNCHANGED <<profiles, donors, dloading, dtoast>>
    /\ UNCHANGED <<lifecycleVars, clockVars, inventoryVars, requestVars,
                   matchVars, notifVars>>

\* handleIgnoreDonor(donorId), from the Ignore button of a listed donor:
\* the store's row is set unavailable, then the donor leaves the local
\* list; on an error nothing changes but the toast.
handleIgnoreDonor(v, d) ==
    /\ includes(donors[v], d)
    /\ selectedDonor[v] = NULL
    /\ \E out \in {"applied", "error", "thrown"} :
         IF out = "applied"
         THEN /\ profiles' = [profiles EXCEPT ![d].is_available = FALSE]
              /\ donors' = [donors EXCEPT
                               ![v] = SelectSeq(donors[v], LAMBDA x : x # d)]
              /\ dtoast' = [dtoast EXCEPT ![v] = "Donor Ignored"]
         ELSE /\ dtoast' = [dtoast EXCEPT ![v] = "Error"]
              /\ UNCHANGED <<profiles, donors>>
    /\ UNCHANGED <<dloading, selectedDonor>>
    /\ UNCHANGED <<lifecycleVars, clockVars, inventoryVars, requestVars,
                   matchVars, notifVars>>

(***************************************************************************)
(* NotificationSystem                                                      *)
(***************************************************************************)
NotifIds == 1..NumNotifs
NoRow == [id |-> NULL]

\* The ids '1', '2', '3' of getMockNotifications: no row of the store, whose
\* ids are uuids, has one of them.
MockIds == (NumNotifs + 1)..(NumNotifs + 3)

\* getMockNotifications(): created now, one day ago and two days ago.
getMockNotifications ==
    << [id |-> NumNotifs + 1, user_id |-> NULL, is_read |-> FALSE,
        created_at |-> now],
       [id |-> NumNotifs + 2, user_id |-> NULL, is_read |-> TRUE,
        created_at |-> now - HoursPerDay],
       [id |-> NumNotifs + 3, user_id |-> NULL, is_read |-> FALSE,
        created_at |-> now - 2 * HoursPerDay] >>

\* The rows 1..n of the store that belong to user, in the store's order.
RECURSIVE RowsOfUpTo(_, _)
RowsOfUpTo(n, user) ==
    IF n = 0 THEN <<>>
    ELSE RowsOfUpTo(n - 1, user)
             \o (IF nstore[n] # NoRow /\ nstore[n].user_id = user
                 THEN <<nstore[n]>> ELSE <<>>)

\* .order('created_at', { ascending: true }), the opposite order.
olderFirst(a, b) == a.created_at < b.created_at

\* .order('created_at', { ascending: false }): a goes before b.
newerFirst(a, b) == a.created_at > b.created_at

\* One row put into an ordered list, after the rows it does not go before.
RECURSIVE insertOrdered(_, _)
insertOrdered(row, list) ==
    IF list = <<>> THEN <<row>>
    ELSE IF newerFirst(row, Head(list)) THEN <<row>> \o list
    ELSE <<Head(list)>> \o insertOrdered(row, Tail(list))

RECURSIVE orderByCreatedAt(_)
orderByCreatedAt(list) ==
    IF list = <<>> THEN <<>>
    ELSE insertOrdered(list[Len(list)],
                       orderByCreatedAt(SubSeq(list, 1, Len(list) - 1)))

\* A notification whose is_read is inverted.
toggledRead(n) == [n EXCEPT !.is_read = ~n.is_read]

\* { ...notification, is_read: true }
markedRead(n) == [n EXCEPT !.is_read = TRUE]

\* prev.map(n => hit(n) ? { ...n, is_read: true } : n), the notifications
\* hit being those whose id is in ids.
MapRead(list, ids) ==
    [i \in 1..Len(list) |-> IF list[i].id \in ids THEN markedRead(list[i])
                            ELSE list[i]]

\* An update without its .eq(...) filter: every row is marked read.
StoreReadUnfiltered(ids) ==
    [id \in NotifIds |->
        IF nstore[id] # NoRow THEN markedRead(nstore[id]) ELSE nstore[id]]

\* The store after .update({ is_read: true }) on the rows whose id is in ids.
StoreRead(ids) ==
    [id \in NotifIds |->
        IF nstore[id] # NoRow /\ id \in ids THEN markedRead(nstore[id])
        ELSE nstore[id]]

\* The handler that returned last: which one, for which id, what the store
\* answered, and whether it repeated the handler that returned before it
\* after that one's store call had been applied.
Returned(op, id, out) ==
    [op |-> op, id |-> id, out |-> out,
     again |-> nop.op = op /\ nop.id = id /\ nop.out = "applied"]
NothingReturned == [op |-> "none", id |-> NULL, out |-> "none", again |-> FALSE]

\* A handler reaches its toast when the store call did not throw.
NotifToastShown == nop.op # "none" /\ nop.op # "fetch" /\ nop.out # "thrown"

\* fetchNotifications(donorId), run by useEffect when donorId is set: the
\* user's rows, newest first; the mock list on an error.
fetchNotifications ==
    /\ donorIdProp # NULL
    /\ nloading
    /\ nloading' = FALSE
    /\ \E out \in {"applied", "error", "thrown"} :
         /\ nlist' = IF out = "applied"
                     THEN orderByCreatedAt(RowsOfUpTo(NumNotifs, donorIdProp))
                     ELSE getMockNotifications
         /\ nop' = Returned("fetch", NULL, out)
    /\ UNCHANGED <<nstore, donorIdProp, inflight>>
    /\ UNCHANGED <<lifecycleVars, clockVars, inventoryVars, requestVars,
                   matchVars, profileVars>>

\* A button of the list is pressed: the handler issues its store call and
\* waits.  "Mark as read" shows on unread notifications, "Mark all as read"
\* while there is an unread one, the delete button on every notification.
ListedIds == {nlist[i].id : i \in 1..Len(nlist)}
UnreadIds == {nlist[i].id : i \in {j \in 1..Len(nlist) : ~nlist[j].is_read}}
NotifPress(op, id) ==
    /\ ~nloading
    /\ BagCardinality(inflight) < MaxInFlight
    /\ CASE op = "markAsRead" -> id \in UnreadIds
         [] op = "markAllAsRead" -> id = NULL /\ UnreadIds # {}
         [] op = "deleteNotification" -> id \in ListedIds
    /\ inflight' = inflight (+) SetToBag({[op |-> op, id |-> id]})
    /\ UNCHANGED <<nstore, donorIdProp, nlist, nloading, nop>>
    /\ UNCHANGED <<lifecycleVars, clockVars, inventoryVars, requestVars,
                   matchVars, profileVars>>

\* What the store call of a handler can come back with.
NotifOutcomes == {"applied", "error", "thrown"}

\* The rest of a handler after its await.
NotifReturns(call, out) ==
    /\ inflight' = inflight (-) SetToBag({call})
    /\ nop' = Returned(call.op, call.id, out)
    /\ UNCHANGED <<donorIdProp, nloading>>
    /\ UNCHANGED <<lifecycleVars, clockVars, inventoryVars, requestVars,
                   matchVars, profileVars>>

\* markAsRead(notificationId)
markAsRead(id) ==
    LET call == [op |-> "markAsRead", id |-> id]
    IN  /\ BagIn(call, inflight)
        /\ \E out \in NotifOutcomes :
             /\ nstore' = IF out = "applied" THEN StoreRead({id}) ELSE nstore
             /\ nlist' = IF out = "thrown" THEN nlist
                         ELSE MapRead(nlist, {id})
             /\ NotifReturns(call, out)

\* markAllAsRead(): the store call is made only with a donorId.
markAllAsRead ==
    LET call == [op |-> "markAllAsRead", id |-> NULL]
        mine == {i \in NotifIds : /\ nstore[i] # NoRow
                                  /\ nstore[i].user_id = donorIdProp}
    IN  /\ BagIn(call, inflight)
        /\ \E out \in IF donorIdProp # NULL THEN NotifOutcomes ELSE {"applied"} :
             /\ nstore' = IF out = "applied" /\ donorIdProp # NULL
                          THEN StoreRead(mine) ELSE nstore
             /\ nlist' = IF out = "thrown" THEN nlist ELSE MapRead(nlist, ListedIds)
             /\ NotifReturns(call, out)

\* deleteNotification(notificationId)
deleteNotification(id) ==
    LET call == [op |-> "deleteNotification", id |-> id]
        keep(n) == n.id # id
    IN  /\ BagIn(call, inflight)
        /\ \E out \in NotifOutcomes :
             /\ nstore' = IF out = "applied"
                          THEN [i \in NotifIds |->
                                   IF i = id THEN NoRow ELSE nstore[i]]
                          ELSE nstore
             /\ nlist' = IF out = "thrown" THEN nlist
                         ELSE SelectSeq(nlist, keep)
             /\ NotifReturns(call, out)

\* Another client's handler (handleAccept, sendNotificationToDonor) inserts
\* a notification for some user.
NotificationArrives(id, user) ==
    /\ nstore[id] = NoRow
    /\ nstore' = [nstore EXCEPT ![id] = [id |-> id, user_id |-> user,
                                         is_read |-> FALSE,
                                         created_at |-> now]]
    /\ nop' = NothingReturned
    /\ UNCHANGED <<donorIdProp, nlist, nloading, inflight>>
    /\ UNCHANGED <<lifecycleVars, clockVars, inventoryVars, requestVars,
                   matchVars, profileVars>>

(***************************************************************************)
(* BloodRequestForm, RequestForm and the rows RequestsList fetches         *)
(***************************************************************************)
\* The hospital accounts: the one of the dashboard and another one.
OtherHospital == HospitalUser + 1
Hospitals == {HospitalUser, OtherHospital}

\* formData of either form, as which of its fields are filled.
FormData ==
    [bloodGroup : BOOLEAN, units : BOOLEAN, patientName : BOOLEAN,
     location : BOOLEAN, contactDetails : BOOLEAN]

\* BloodRequestForm.isFormValid()
isFormValid(f) == f.bloodGroup /\ f.units /\ f.patientName /\ f.location

\* A check of the patient name alone.
requestFormNameOnly(f) == f.patientName

\* RequestForm.handleSubmit goes on when neither !formData.patientName nor
\* !formData.bloodType holds.
requestFormFilled(f) == f.patientName /\ f.bloodGroup

\* The submit event reaches handleSubmit: BloodRequestForm's submit button
\* is disabled unless isFormValid(); RequestForm's patient name and contact
\* inputs are `required`, its blood type is a Select the browser does not
\* check.
RequestSubmits(form, f) ==
    IF form = "BloodRequestForm" THEN isFormValid(f)
    ELSE f.patientName /\ f.contactDetails

\* No handleSubmit of a request form is running.
NoRequestSubmit ==
    [form |-> "none", user |-> NULL,
     data |-> [bloodGroup |-> FALSE, units |-> FALSE, patientName |-> FALSE,
               location |-> FALSE, contactDetails |-> FALSE],
     toast |-> "none"]

\* handleSubmit of a request form up to its await.  user is the id found in
\* sessionStorage 'hospital' (BloodRequestForm) or useAuth().user
\* (RequestForm), NULL when there is none.
RequestSubmit(form, user, f) ==
    /\ rpc = "idle"
    /\ RequestSubmits(form, f)
    /\ started < MaxOps
    /\ started' = started + 1
    /\ LET filled == IF form = "BloodRequestForm" THEN isFormValid(f)
                     ELSE requestFormFilled(f)
           run(next, message) ==
               /\ rpc' = next
               /\ rop' = [form |-> form, user |-> user, data |-> f,
                          toast |-> message]
       IN  IF form = "BloodRequestForm"
           THEN IF ~filled THEN run("return", "validation_error")
                ELSE IF user = NULL THEN run("return", "auth_error")
                ELSE run("insert", "none")
           ELSE IF user = NULL THEN run("return", "auth_required")
                ELSE IF ~filled THEN run("return", "missing_information")
                ELSE run("insert", "none")
    /\ UNCHANGED <<rstore, rlist>>
    /\ UNCHANGED <<requests, appointments, notifications, cardVars,
                   hospitalVars, clockVars, inventoryVars, matchVars,
                   profileVars, notifVars>>

\* The row a request form inserts: BloodRequestForm gives hospital_id and
\* status 'pending'; RequestForm gives hospital_id, created_by and no
\* status.
RequestRow(form, user) ==
    [id |-> Len(rstore) + 1,
     hospital_id |-> user,
     created_by |-> IF form = "RequestForm" THEN user ELSE NULL,
     status |-> IF form = "BloodRequestForm" THEN "pending" ELSE NoStatus,
     created_at |-> now]

\* handleSubmit of a request form: the insert returns.
RequestInsert ==
    /\ rpc = "insert"
    /\ rpc' = "return"
    /\ \E out \in InsertOutcomes :
         CASE out = "applied" ->
                /\ rstore' = Append(rstore, RequestRow(rop.form, rop.user))
                /\ rop' = [rop EXCEPT !.toast = "submitted"]
           [] out = "error" ->
                /\ UNCHANGED rstore
                /\ rop' = [rop EXCEPT !.toast = "failed"]
           [] out = "thrown" ->
                /\ UNCHANGED rstore
                /\ rop' = [rop EXCEPT !.toast = "error"]
    /\ UNCHANGED rlist
    /\ UNCHANGED <<lifecycleVars, clockVars, inventoryVars, matchVars,
                   profileVars, notifVars>>

\* handleSubmit of a request form is over.
RequestReturn ==
    /\ rpc = "return"
    /\ rpc' = "idle"
    /\ rop' = NoRequestSubmit
    /\ UNCHANGED <<rstore, rlist>>
    /\ UNCHANGED <<lifecycleVars, clockVars, inventoryVars, matchVars,
                   profileVars, notifVars>>

\* .select('*').eq('created_by', user): the rows 1..n of the store that
\* user created, in the store's order.
RECURSIVE CreatedByUpTo(_, _)
CreatedByUpTo(n, user) ==
    IF n = 0 THEN <<>>
    ELSE CreatedByUpTo(n - 1, user)
             \o (IF rstore[n].created_by = user THEN <<rstore[n]>> ELSE <<>>)

\* RequestsList.fetchRequests for the signed-in user, run when the list
\* mounts: the rows with created_by = user.id, newest first, each with the
\* status it shows; on an error the list keeps what it had.
fetchRequests(user) ==
    /\ user # NULL
    /\ LET data == orderByCreatedAt(CreatedByUpTo(Len(rstore), user))
           requestsWithStatus ==
               [i \in 1..Len(data) |->
                   [data[i] EXCEPT !.status = StatusShown(@)]]
       IN  \E out \in {"data", "error"} :
             rlist' = IF out = "data"
                      THEN [user |-> user, out |-> out,
                            rows |-> requestsWithStatus]
                      ELSE [rlist EXCEPT !.user = user, !.out = out]
    /\ UNCHANGED <<rstore, rpc, rop>>
    /\ UNCHANGED <<lifecycleVars, clockVars, inventoryVars, matchVars,
                   profileVars, notifVars>>

(***************************************************************************)
(* Initial states and specifications                                       *)
(***************************************************************************)
\* 23:00 UTC, one hour before a day begins.
StartInstant == WindowDays * HoursPerDay - 1

\* The request rows exist, as BloodRequestForm (status 'pending') or
\* RequestForm (no status given) inserted them; nothing else has happened.
InitLifecycle ==
    /\ requests \in [Requests -> {[status |-> s, donor_id |-> NULL,
                                   hospital_id |-> HospitalUser] :
                                   s \in {"pending", NoStatus}}]
    /\ appointments = EmptyBag
    /\ notifications = EmptyBag
    /\ started = 0
    /\ pc = [c \in Cards |-> "idle"]
    /\ loading = [c \in Cards |-> FALSE]
    /\ pre = [c \in Cards |-> "none"]
    /\ preDonor = [c \in Cards |-> NULL]
    /\ changes = [c \in Cards |-> {}]
    /\ toast = [c \in Cards |-> "none"]
    /\ hview = [id \in Requests |-> "none"]
    /\ lpc = "idle"
    /\ lop = NoUpdate
    /\ hpc = "idle"
    /\ hop = NoSubmit
    /\ hpre = "none"
    /\ hchanges = {}
    /\ htoast = "none"

InitClock == now = StartInstant /\ ticks = 0 /\ tz = 0
InitClockAnyZone == now = StartInstant /\ ticks = 0 /\ tz \in (0 - TzMax)..TzMax

InitInventory ==
    /\ bloodInventory = [t \in Types |-> MaxUnits]
    /\ editingType = NULL
    /\ tempValue = 0
    /\ dashToast = NoToast
InitInventoryAny ==
    /\ bloodInventory \in [Types -> 0..MaxUnits]
    /\ editingType = NULL
    /\ tempValue = 0
    /\ dashToast = NoToast

InitMatch ==
    /\ donorType = "none"
    /\ patientType = "none"
    /\ answer = FALSE
    /\ reqGroup = "none"
    /\ matched = <<>>

\* Every donor has a profile, available or not; no list has loaded.
InitProfiles ==
    /\ profiles \in [Donors -> [is_available : BOOLEAN]]
    /\ donors = [v \in Viewers |-> <<>>]
    /\ dloading = [v \in Viewers |-> TRUE]
    /\ selectedDonor = [v \in Viewers |-> NULL]
    /\ dtoast = [v \in Viewers |-> "none"]
InitProfilesAllAvailable ==
    /\ InitProfiles
    /\ \A d \in Donors : profiles[d].is_available

\* The users whose notifications the table holds: the hospital account the
\* dashboard passes as donorId, and one donor.
NotifUsers == {HospitalUser, 1}

\* The notification rows stored before the component mounts.
StoredRow(id) ==
    [id : {id}, user_id : NotifUsers, is_read : BOOLEAN,
     created_at : {now - HoursPerDay, now}]
InitNotifEmpty ==
    /\ nstore = [id \in NotifIds |-> NoRow]
    /\ donorIdProp = HospitalUser
    /\ nlist = <<>>
    /\ nloading = TRUE
    /\ inflight = EmptyBag
    /\ nop = NothingReturned
InitNotifAny ==
    /\ nstore \in {f \in [NotifIds -> UNION {StoredRow(i) : i \in NotifIds}
                                          \cup {NoRow}] :
                      \A id \in NotifIds : f[id] = NoRow \/ f[id].id = id}
    /\ donorIdProp \in {NULL, HospitalUser}
    /\ nlist = <<>>
    /\ nloading = TRUE
    /\ inflight = EmptyBag
    /\ nop = NothingReturned

\* No request form has been submitted and the list has not been fetched.
InitRequestForms ==
    /\ rstore = <<>>
    /\ rpc = "idle"
    /\ rop = NoRequestSubmit
    /\ rlist = [user |-> NULL, out |-> "none", rows |-> <<>>]

InitScreens ==
    InitMatch /\ InitProfilesAllAvailable /\ InitNotifEmpty /\ InitRequestForms

\* The donors' cards.
CardNext ==
    \E c \in Cards :
        \/ AcceptStart(c)
        \/ AcceptUpdate(c)
        \/ AcceptAppointment(c)
        \/ AcceptNotification(c)
        \/ IgnoreStart(c)
        \/ IgnoreUpdate(c)
        \/ CardAbandon(c)
        \/ CardReturn(c)

\* The hospital's appointment form.
FormNext ==
    \/ \E donor \in Donors, requestId \in Requests \cup {NULL},
          date \in DateChoices, time \in TimeChoices, contact \in BOOLEAN :
            HandleSubmit(donor, requestId, date, time, contact)
    \/ SubmitInsert
    \/ SubmitUpdate
    \/ sendNotificationToDonor
    \/ FormAbandon
    \/ SubmitReturn

\* The hospital's request list.
ListNext ==
    \/ FetchRequests
    \/ \E id \in Requests, status \in {"Accepted", "Ignored"} :
            UpdateRequestStatus(id, status)
    \/ ListReturn

\* The lifecycle at one instant, every client in one timezone.
Init == InitLifecycle /\ InitClock /\ InitInventory /\ InitScreens
Next == CardNext \/ FormNext \/ ListNext
Spec == Init /\ [][Next]_vars

\* Scheduling while the clock runs, the client in any timezone.
InitDate == InitLifecycle /\ InitClockAnyZone /\ InitInventory /\ InitScreens
NextDate ==
    \/ Tick
    \/ \E c \in Cards :
        \/ AcceptStart(c)
        \/ AcceptUpdate(c)
        \/ AcceptAppointment(c)
        \/ AcceptNotification(c)
        \/ CardReturn(c)
    \/ \E donor \in Donors, requestId \in Requests \cup {NULL},
          date \in DateChoices, time \in TimeChoices, contact \in BOOLEAN :
            HandleSubmit(donor, requestId, date, time, contact)
    \/ SubmitInsert
    \/ SubmitUpdate
    \/ sendNotificationToDonor
    \/ SubmitReturn
SpecDate == InitDate /\ [][NextDate]_vars

\* The inventory tab of the hospital dashboard.
InitInv == InitLifecycle /\ InitClock /\ InitInventoryAny /\ InitScreens
NextInventory ==
    \/ \E type \in Types : handleEditStart(type)
    \/ \E text \in Texts : tempValueChange(text)
    \/ \E type \in Types : handleEditSave(type)
    \/ handleEditCancel
    \/ \E type \in Types, change \in {1, 0 - 1} : handleQuickUpdate(type, change)
SpecInventory == InitInv /\ [][NextInventory]_vars

\* The matches card of the donor dashboard.
NextMatch ==
    \/ \E d \in TypeStrings, p \in TypeStrings : Compatible(d, p)
    \/ \E group \in TypeStrings : RenderMatches(group)
SpecMatch == Init /\ [][NextMatch]_vars

\* The donor lists of the hospital sessions.
InitDonorLists == InitLifecycle /\ InitClock /\ InitInventory /\ InitMatch
                      /\ InitProfiles /\ InitNotifEmpty /\ InitRequestForms
NextProfiles ==
    \E v \in Viewers :
        \/ fetchDonors(v)
        \/ \E d \in Donors :
              \/ handleAcceptDonor(v, d)
              \/ handleIgnoreDonor(v, d)
        \/ CloseAppointmentForm(v)
SpecProfiles == InitDonorLists /\ [][NextProfiles]_vars

\* The notification panel of one user.
InitNotifications == InitLifecycle /\ InitClock /\ InitInventory /\ InitMatch
                         /\ InitProfilesAllAvailable /\ InitNotifAny
                         /\ InitRequestForms
NextNotifications ==
    \/ fetchNotifications
    \/ \E op \in {"markAsRead", "markAllAsRead", "deleteNotification"},
          id \in NotifIds \cup MockIds \cup {NULL} : NotifPress(op, id)
    \/ \E id \in NotifIds \cup MockIds : markAsRead(id)
    \/ markAllAsRead
    \/ \E id \in NotifIds \cup MockIds : deleteNotification(id)
    \/ \E id \in NotifIds, user \in NotifUsers : NotificationArrives(id, user)
SpecNotifications == InitNotifications /\ [][NextNotifications]_vars

\* The request forms of the hospitals.
RequestFormsNext ==
    \/ \E form \in {"BloodRequestForm", "RequestForm"},
          user \in Hospitals \cup {NULL}, f \in FormData :
          RequestSubmit(form, user, f)
    \/ RequestInsert
    \/ RequestReturn

\* The request forms and the list that shows their rows, over time.
NextRequests ==
    \/ RequestFormsNext
    \/ \E user \in Hospitals \cup {NULL} : fetchRequests(user)
    \/ Tick
SpecRequests == Init /\ [][NextRequests]_vars

\* The donors' cards alone, where every store call a handler awaits comes
\* back (applied, with an error, or thrown) and the code after an await and
\* the finally block then run.
CardProgress(c) ==
    \/ AcceptUpdate(c)
    \/ AcceptAppointment(c)
    \/ AcceptNotification(c)
    \/ IgnoreUpdate(c)
    \/ CardReturn(c)
SpecCards ==
    Init /\ [][CardNext]_vars /\ \A c \in Cards : WF_vars(CardProgress(c))

\* Every handler that checks its input before it writes: the request
\* forms, the appointment form and the donors' cards.
NextValidation == RequestFormsNext \/ FormNext \/ CardNext
SpecValidation == Init /\ [][NextValidation]_vars

(***************************************************************************)
(* The lifecycle the specification describes, read off the stored rows     *)
(***************************************************************************)
\* The lifecycle state a stored status stands for: the components write
\* 'accepted' and 'ignored' from the donor's card, 'Accepted', 'Ignored' and
\* 'Scheduled' from the hospital's screens, and a row without a status is
\* listed as 'Pending'.
LifecycleState(status) ==
    CASE status \in {"pending", "Pending", NoStatus} -> "Pending"
      [] status \in {"accepted", "Accepted"} -> "Accepted"
      [] status \in {"ignored", "Ignored"} -> "Ignored"
      [] OTHER -> status

\* The edges of the request state machine.
LifecycleEdges ==
    {<<"Pending", "Accepted">>, <<"Pending", "Ignored">>,
     <<"Accepted", "Scheduled">>, <<"Accepted", "Cancelled">>,
     <<"Scheduled", "Completed">>, <<"Scheduled", "Cancelled">>}

\* The states in which a request has an assigned donor.
AssignedStates == {"Accepted", "Scheduled", "Completed"}

\* The record changes of one complete handleAccept, and of one complete
\* handleSubmit with the props and form data in hop.
AcceptWrites == {"request", "appointment", "notification"}
SubmitWrites ==
    IF hop.requestId = NULL THEN {"appointment", "notification"}
    ELSE {"request", "appointment", "notification"}

\* C1: of the accept attempts on one request, at most one ends in success;
\* no two donors' handleAccept both reach their end reporting success for
\* the same request.
C1_OnlyOneAcceptSucceeds ==
    \A c, d \in Cards :
        (/\ c # d
         /\ c[2] = d[2]
         /\ pc[c] = "acc_return" /\ toast[c] = "success"
         /\ pc[d] = "acc_return")
        => toast[d] # "success"

\* C2: a handleAccept whose update met a stored status that was no longer
\* Pending does not report success and has written nothing: no request
\* change, no appointment, no notification.
C2_AcceptOnResolvedFails ==
    \A c \in Cards :
        (/\ pc[c] = "acc_return"
         /\ pre[c] # "none"
         /\ LifecycleState(pre[c]) # "Pending")
        => /\ toast[c] # "success"
           /\ changes[c] = {}

\* C3: a request has an assigned donor exactly when its status is
\* Accepted, Scheduled or Completed.
C3_DonorIffAssignedState ==
    \A id \in Requests :
        (requests[id].donor_id # NULL)
            <=> (LifecycleState(requests[id].status) \in AssignedStates)

\* C4: every step leaves a request's lifecycle state where it was or moves
\* it along one edge of the state machine; Ignored, Cancelled and Completed
\* have no outgoing edge.
C4_OnlyLifecycleEdges ==
    [][\A id \in Requests :
         \/ LifecycleState(requests'[id].status)
                = LifecycleState(requests[id].status)
         \/ <<LifecycleState(requests[id].status),
              LifecycleState(requests'[id].status)>> \in LifecycleEdges]_vars

\* C5: the step in which a donor's handleIgnore gets its answer from the
\* store leaves every request row as it was, status and assigned donor.
C5_IgnoreLeavesRequest ==
    [][\A c \in Cards :
         (pc[c] = "ign_update" /\ pc'[c] = "ign_return")
             => requests' = requests]_vars

\* C6: every appointment that references a request names the donor the
\* request is assigned to.
C6_AppointmentDonorIsAssignedDonor ==
    \A a \in BagToSet(appointments) :
        a.request_id # NULL => a.donor_id = requests[a.request_id].donor_id

\* C7: a handleAccept or a handleSubmit that has ended, by success, by a
\* failed store step or by the caller leaving, has written all of its
\* record changes or none of them.
C7_AllOrNothing ==
    /\ \A c \in Cards :
         pc[c] = "acc_return" => changes[c] \in {{}, AcceptWrites}
    /\ hpc = "sch_return" => hchanges \in {{}, SubmitWrites}

C9_AppointmentWithinWindow ==
    \A a \in BagToSet(appointments) :
        LET ahead == LocalDay(a.appointment_date) - LocalDay(a.created_at)
        IN  0 <= ahead /\ ahead <= WindowDays

\* C10: every blood type's unit count is an integer that is at least 0.
C10_InventoryNonNegative ==
    \A t \in Types : bloodInventory[t] \in Nat

\* C11: a decrement that would take a count below zero is not reported as
\* an applied decrease: whenever a quick update shows "decreased by 1" for
\* a blood type, that type's count has gone down by one.
C11_DecreaseReportedOnlyWhenApplied ==
    [][\A t \in Types :
         (/\ UNCHANGED <<editingType, tempValue>>
          /\ dashToast' = [title |-> QuickUpdateTitle(0 - 1), type |-> t])
         => bloodInventory'[t] = bloodInventory[t] - 1]_vars

\* The standard table: the ABO antigens of a group, and its Rh factor.
Antigens(g) ==
    CASE g \in {"O-", "O+"} -> {}
      [] g \in {"A-", "A+"} -> {"A"}
      [] g \in {"B-", "B+"} -> {"B"}
      [] g \in {"AB-", "AB+"} -> {"A", "B"}
RhPositive(g) == g \in {"O+", "A+", "B+", "AB+"}
MayDonateTo(d, r) ==
    /\ Antigens(d) \subseteq Antigens(r)
    /\ ~RhPositive(d) \/ RhPositive(r)

\* C13: for every pair of the 8 groups, compatible(d, r) is true exactly
\* when the donor's ABO antigens are among the recipient's and the donor is
\* Rh-negative or the recipient Rh-positive; AB+ admits all 8 groups as
\* donors and O- admits O- alone.
C13_CompatibleIsStandardTable ==
    /\ (donorType \in BloodGroups /\ patientType \in BloodGroups)
           => (answer <=> MayDonateTo(donorType, patientType))
    /\ (donorType \in BloodGroups /\ patientType = "AB+") => answer
    /\ (donorType \in BloodGroups /\ patientType = "O-")
           => (answer <=> donorType = "O-")
C13_Witness ==
    /\ donorType = "A-" /\ patientType = "AB+" /\ answer

\* C14: every donor in a list a hospital session displays has
\* is_available = true in the store.
C14_ListedDonorsAreAvailable ==
    \A v \in Viewers :
        \A i \in 1..Len(donors[v]) : profiles[donors[v][i]].is_available

\* C15: when the notification insert of handleAccept or of handleSubmit
\* comes back, whether it was stored, returned an error or threw, the
\* handler reports success and the store's requests and appointments stay
\* as the handler had left them.
C15_NotificationFailureNonFatal ==
    [][/\ \A c \in Cards :
            (/\ pc[c] = "acc_notification"
             /\ pc'[c] = "acc_return"
             /\ toast'[c] # "abandoned")
            => /\ toast'[c] = "success"
               /\ requests' = requests
               /\ appointments' = appointments
       /\ (/\ hpc = "sch_notification"
           /\ hpc' = "sch_return"
           /\ htoast' # "abandoned")
          => /\ htoast' = "success"
             /\ requests' = requests
             /\ appointments' = appointments]_vars

\* C16: markAsRead(id), markAllAsRead and deleteNotification(id) are
\* idempotent: when one of them returns right after the same handler, for
\* the same id, had returned with its store call applied, the store and the
\* local list stay as that first call left them, whatever the store answers
\* the second time (an id that no longer exists included).
C16_NotificationOpsIdempotent ==
    [][(nop'.again /\ nop'.op \in {"markAsRead", "markAllAsRead",
                                   "deleteNotification"})
           => (nstore' = nstore /\ nlist' = nlist)]_vars
C16_Witness ==
    /\ nop.again
    /\ nop.op = "deleteNotification"
    /\ nop.out = "applied"
    /\ nop.id \in NotifIds
    /\ nstore[nop.id] = NoRow

\* C18: the local notification list is ordered newest first by created_at,
\* after fetchNotifications (store data or the mock list) and after every
\* markAsRead, markAllAsRead and deleteNotification.
C18_ListNewestFirst ==
    \A i \in 1..(Len(nlist) - 1) :
        nlist[i].created_at >= nlist[i + 1].created_at
C18_Witness ==
    /\ nop.op = "markAsRead"
    /\ Len(nlist) = 2
    /\ nlist[1].id \in NotifIds
    /\ nlist[1].id > nlist[2].id
    /\ nlist[1].created_at > nlist[2].created_at

\* The appointment statuses the appointments table admits.
AppointmentStatuses ==
    {"scheduled", "confirmed", "completed", "cancelled", "no_show"}

\* C17: a donor's ignore of a request the same donor has already ignored
\* leaves the store as the first ignore left it: same status, same assigned
\* donor, no appointment and no notification added; and the card the donor
\* sees is the one seen after the first ignore.
C17_IgnoreTwiceIsIgnoreOnce ==
    [][\A c \in Cards :
         (/\ pc[c] = "ign_update"
          /\ pc'[c] = "ign_return"
          /\ requests[c[2]].status = "ignored"
          /\ requests[c[2]].donor_id = c[1])
         => /\ requests' = requests
            /\ appointments' = appointments
            /\ notifications' = notifications
            /\ CardShowsButtons(c)' = CardShowsButtons(c)]_vars
C17_Witness ==
    \E c \in Cards :
        /\ pc[c] = "ign_return"
        /\ pre[c] = "ignored"
        /\ preDonor[c] = c[1]
        /\ toast[c] = "success"
        /\ changes[c] = {"request"}
        /\ requests[c[2]].status = "ignored"
        /\ requests[c[2]].donor_id = c[1]
        /\ started = MaxOps

\* C19: every stored appointment has a status the appointments table
\* admits, and, none having been touched since it was created, the status
\* 'scheduled'.
C19_AppointmentsAreScheduled ==
    \A a \in BagToSet(appointments) :
        /\ a.status \in AppointmentStatuses
        /\ a.status = "scheduled"

\* C20: no donor holds two appointments that are not cancelled on one day.
C20_OneAppointmentPerDonorPerDay ==
    \A a, b \in BagToSet(appointments) :
        (/\ a.donor_id = b.donor_id
         /\ a.status # "cancelled" /\ b.status # "cancelled"
         /\ LocalDay(a.appointment_date) = LocalDay(b.appointment_date))
        => /\ a = b
           /\ CopiesIn(a, appointments) = 1
\* C21: the donors listed under a request are donors of the donor set that
\* are compatible with the request's group, no listed donor is farther than
\* a later-listed one, and a compatible donor is left out only when two are
\* listed and none of them is farther than it.  A request whose group is
\* not one of the 8 has no compatible donor.
C21_MatchesNearestFirst ==
    LET ok(d) == reqGroup \in BloodGroups /\ MayDonateTo(d.blood, reqGroup)
    IN reqGroup # "none" =>
        /\ Len(matched) <= 2
        /\ \A i \in 1..Len(matched) :
              /\ \E k \in 1..Len(demoDonors) : demoDonors[k] = matched[i]
              /\ ok(matched[i])
        /\ \A i, j \in 1..Len(matched) :
              i < j => matched[i].distanceKm <= matched[j].distanceKm
        /\ \A k \in 1..Len(demoDonors) :
              (/\ ok(demoDonors[k])
               /\ \A i \in 1..Len(matched) : matched[i] # demoDonors[k])
              => /\ Len(matched) = 2
                 /\ \A i \in 1..Len(matched) :
                       matched[i].distanceKm <= demoDonors[k].distanceKm

\* A request for AB+ has been rendered: all four donors are compatible, two
\* are listed and two are left out.
C21_Witness ==
    /\ reqGroup = "AB+"
    /\ Len(matched) = 2
    /\ \E k \in 1..Len(demoDonors) :
          /\ compatible(demoDonors[k].blood, reqGroup)
          /\ \A i \in 1..Len(matched) : matched[i] # demoDonors[k]

\* C22: a handler that has written a lifecycle transition to a request and
\* has reported success has also inserted a notification: for the hospital
\* of the request after an accept, for the chosen donor after a schedule,
\* and one notification for the request after an ignore or after a status
\* change made in the requests list.
C22_TransitionsNotify ==
    /\ \A c \in Cards :
          (pc[c] \in {"acc_return", "ign_return"} /\ toast[c] = "success"
           /\ "request" \in changes[c])
          => /\ "notification" \in changes[c]
             /\ \E n \in BagToSet(notifications) :
                   /\ n.request_id = c[2]
                   /\ pc[c] = "acc_return"
                        => n.user_id = requests[c[2]].hospital_id
    /\ (lpc = "return" /\ lop.toast = "success" /\ "request" \in lop.changes)
          => \E n \in BagToSet(notifications) : n.request_id = lop.id
    /\ (hpc = "sch_return" /\ htoast = "success" /\ "request" \in hchanges)
          => /\ "notification" \in hchanges
             /\ \E n \in BagToSet(notifications) : n.user_id = hop.donor

\* C23: a notification that exists before and after a step differs at most
\* in is_read, and is_read never goes from true back to false, in the store
\* and in the local list alike.  A stored notification changes only when
\* markAsRead returns for its id or markAllAsRead returns and it belongs to
\* the user of the panel; a listed one only when markAsRead returns for its
\* id or markAllAsRead returns.
C23_OnlyReadFlagChanges ==
    [][/\ \A i \in NotifIds :
            (nstore[i] # NoRow /\ nstore'[i] # NoRow) =>
               /\ [nstore'[i] EXCEPT !.is_read = nstore[i].is_read] = nstore[i]
               /\ nstore[i].is_read => nstore'[i].is_read
               /\ nstore'[i] # nstore[i] =>
                     \/ nop'.op = "markAsRead" /\ nop'.id = i
                     \/ /\ nop'.op = "markAllAsRead"
                        /\ nstore[i].user_id = donorIdProp
       /\ \A i \in 1..Len(nlist), j \in 1..Len(nlist') :
            nlist[i].id = nlist'[j].id =>
               /\ [nlist'[j] EXCEPT !.is_read = nlist[i].is_read] = nlist[i]
               /\ nlist[i].is_read => nlist'[j].is_read
               /\ nlist'[j] # nlist[i] =>
                     \/ nop'.op = "markAsRead" /\ nop'.id = nlist[i].id
                     \/ nop'.op = "markAllAsRead"]_vars

\* markAsRead has returned with its update applied: its notification is read
\* in the store and in the list, and another notification of the same user
\* is still unread in both.
C23_Witness ==
    /\ nop.op = "markAsRead" /\ nop.out = "applied"
    /\ nop.id \in NotifIds
    /\ nstore[nop.id] # NoRow /\ nstore[nop.id].is_read
    /\ \E j \in NotifIds \ {nop.id} :
          /\ nstore[j] # NoRow
          /\ nstore[j].user_id = donorIdProp
          /\ ~nstore[j].is_read
          /\ \E k \in 1..Len(nlist) : nlist[k].id = j /\ ~nlist[k].is_read

\* The request statuses the requests table admits.
RequestStatuses == {"pending", "accepted", "fulfilled", "cancelled", "expired"}

\* C24: every status stored on a request is one of the statuses the store
\* admits, and the status the requests list holds for a row, which its
\* buttons are enabled by, is one of the same statuses.
C24_OneStatusVocabulary ==
    \A id \in Requests :
        /\ requests[id].status \in RequestStatuses \cup {NoStatus}
        /\ hview[id] \in RequestStatuses \cup {"none"}

\* C25: at most one appointment that is not cancelled refers to a request.
C25_OneAppointmentPerRequest ==
    \A id \in Requests :
        \A a, b \in BagToSet(appointments) :
            (/\ a.request_id = id /\ b.request_id = id
             /\ a.status # "cancelled" /\ b.status # "cancelled")
            => (a = b /\ CopiesIn(a, appointments) = 1)

\* C27: when fetchRequests returns data for hospital X, the list holds
\* exactly the stored requests X submitted, newest first, and the store is
\* as it was.
C27_ListShowsCreatedRequests ==
    [][(rlist' # rlist /\ rlist'.out = "data") =>
          /\ rstore' = rstore
          /\ \A i \in 1..Len(rstore) :
                (rstore[i].hospital_id = rlist'.user)
                <=> (\E k \in 1..Len(rlist'.rows) :
                        rlist'.rows[k].id = rstore[i].id)
          /\ \A k \in 1..(Len(rlist'.rows) - 1) :
                rlist'.rows[k].created_at >= rlist'.rows[k + 1].created_at]_vars

\* The fields each request form labels as required (*) and that can be
\* empty: the request type, the urgency and RequestForm's units always hold
\* a value.
RequiredFilled(form, f) ==
    IF form = "BloodRequestForm"
    THEN f.bloodGroup /\ f.units /\ f.patientName /\ f.location
    ELSE f.patientName /\ f.bloodGroup /\ f.contactDetails

\* C26: a request form inserts a row only when its handleSubmit was called
\* with an actor id and every required field filled; a handleSubmit of
\* AppointmentForm that finds no user or a missing field, and a handleAccept
\* or handleIgnore that finds no donor id in the session, end at once and
\* write nothing; and AppointmentForm writes only for a user and a date.
C26_NoWriteWithoutValidInput ==
    [][/\ rstore' # rstore
            => (rop.user # NULL /\ RequiredFilled(rop.form, rop.data))
       /\ (rpc = "idle" /\ rpc' # "idle"
             /\ (rop'.user = NULL \/ ~RequiredFilled(rop'.form, rop'.data)))
            => (rpc' = "return" /\ rstore' = rstore)
       /\ \A c \in Cards :
            (pc[c] = "idle" /\ toast'[c] = "auth_error")
            => /\ pc'[c] \in {"acc_return", "ign_return"}
               /\ changes'[c] = {}
               /\ requests' = requests
               /\ appointments' = appointments
               /\ notifications' = notifications
       /\ (hpc = "idle" /\ htoast' \in {"auth_required", "missing_information"})
            => /\ hpc' = "sch_return"
               /\ hchanges' = {}
               /\ requests' = requests
               /\ appointments' = appointments
               /\ notifications' = notifications
       /\ (hpc # hpc' /\ hpc \in {"sch_insert", "sch_update", "sch_notification"})
            => (hop.user # NULL /\ hop.at # NULL)]_vars

\* RequestForm's handleSubmit has ended on a missing blood type and a card's
\* handler on a session without a donor id, and no row has been written.
C26_Witness ==
    /\ rpc = "return"
    /\ rop.form = "RequestForm"
    /\ rop.user # NULL
    /\ ~rop.data.bloodGroup
    /\ rop.toast = "missing_information"
    /\ \E c \in Cards : pc[c] = "acc_return" /\ toast[c] = "auth_error"
    /\ rstore = <<>>
    /\ appointments = EmptyBag
    /\ \A id \in Requests : requests[id].donor_id = NULL

\* C28: a step in which a hospital's list loses a donor to handleIgnoreDonor
\* leaves every donor's stored profile, its availability flag included, as
\* it was.
C28_IgnoreDonorLeavesRecord ==
    [][\A v \in Viewers :
         (donors'[v] # donors[v] /\ dtoast'[v] = "Donor Ignored")
         => profiles' = profiles]_vars

\* C29: when markAsRead, markAllAsRead or deleteNotification returns and its
\* store call was not applied, the local list is as it was before; and a
\* listed notification of the store that a returning handler leaves read
\* locally is read in the store, one it removes is gone from the store.
C29_ListFollowsStore ==
    [][(/\ BagCardinality(inflight') < BagCardinality(inflight)
        /\ nop'.op \in {"markAsRead", "markAllAsRead", "deleteNotification"})
       => /\ nop'.out # "applied" => nlist' = nlist
          /\ \A i \in 1..Len(nlist) :
                nlist[i].id \in NotifIds =>
                   IF \E k \in 1..Len(nlist') : nlist'[k].id = nlist[i].id
                   THEN \A k \in 1..Len(nlist') :
                          (/\ nlist'[k].id = nlist[i].id
                           /\ nlist'[k].is_read /\ ~nlist[i].is_read
                           /\ nstore'[nlist[i].id] # NoRow)
                          => nstore'[nlist[i].id].is_read
                   ELSE nstore'[nlist[i].id] = NoRow]_vars

\* C30: a card is loading exactly while one of its handlers is running, a
\* handler starts only on a card that is not loading (its buttons are
\* disabled otherwise), so a card never runs two handlers at once; and a
\* card that is loading is eventually not loading, whichever way its
\* handler ends.
C30_LoadingAlwaysReset ==
    /\ [](\A c \in Cards : loading[c] <=> pc[c] # "idle")
    /\ [][\A c \in Cards :
            (pc[c] = "idle" /\ pc'[c] # "idle") => (~loading[c] /\ loading'[c])]_vars
    /\ \A c \in Cards : loading[c] ~> ~loading[c]

\* A handleAccept whose store call threw has shown its error toast and has
\* not yet reached its finally block: the card is still loading.
C30_Witness ==
    \E c \in Cards :
        /\ pc[c] = "acc_return"
        /\ toast[c] = "error"
        /\ "request" \in changes[c]
        /\ loading[c]

====
